---- MODULE Spec2Model ----
(***************************************************************************)
(* CAN_AQHI: the three AQHI fetch / normalise / merge / colour / filter /  *)
(* write scripts (aqhi_xml_to_map.py, scripts/aqhi_geomet_to_geojson.py,   *)
(* scripts/aqhi_geomet_all.py) as state machines.                          *)
(*                                                                         *)
(*   Spec        one run of main() of one of the three variants            *)
(*   SpecColor   aqhi_to_color applied to one value                        *)
(*   SpecFilter  filter_realtime_observation_urls applied to one index     *)
(*   SpecPager   fetch_all_items paging one OGC API collection             *)
(*   SpecParse   parse_aqhi_xml applied to one document                    *)
(*                                                                         *)
(* Python values are modelled as records tagged by kind:                   *)
(*   None            [kind |-> "none"]                                     *)
(*   float NaN       [kind |-> "nan"]                                      *)
(*   float num/den   [kind |-> "num", num |-> n, den |-> d]   (d > 0)      *)
(*   str             [kind |-> "str", s |-> <<"7", ".", "5">>]             *)
(*   list            [kind |-> "list", items |-> <<...>>]                  *)
(* A Python str is the tuple of its characters.                            *)
(***************************************************************************)
EXTENDS Integers, Sequences, FiniteSets, TLC

VARIABLES
    \* ---- aqhi_to_color (SpecColor)
    val,          \* the argument of aqhi_to_color
    color,        \* its result ("unset" before the call)
    \* ---- filter_realtime_observation_urls (SpecFilter)
    urls,         \* the urls argument (output of parse_master_list)
    regions,      \* the regions argument: None or a list of region codes
    limit,        \* the limit argument
    kept,         \* the returned list (None before the call)
    \* ---- main() (Spec)
    variant,      \* "xml" | "geojson" | "all"
    bbox,         \* args.bbox: None or the list [W, S, E, N]
    pc,           \* position in main(); "aborted" after an uncaught exception
    todo,         \* XML: URLs left in the loop; API: 1 while url is not None
    requests,     \* leaf resources requested so far
    failures,     \* how many of them raised (timeout, HTTP error)
    rows,         \* records accumulated (XML: rows; API: observation features)
    fcst,         \* "all" variant: forecast features accumulated
    df,           \* the observation dataframe
    fcst_df,      \* the forecast dataframe ("all" variant)
    merged,       \* df as the merge and colour step left it
    fcst_merged,  \* fcst_df as the merge and colour step left it
    written,      \* output files written
    exit_code,    \* "running", "0" or "1"
    \* ---- fetch_all_items (SpecPager)
    page_bbox,    \* the bbox argument: None or the list [W, S, E, N]
    url,          \* the URL of the next request, None once no next link was found
    params,       \* the query parameters dict, None after the first iteration
    items,        \* the features accumulated
    sent,         \* the requests issued so far: the URL and the params of each
    responses,    \* the JSON documents received so far
    pager_pc,     \* "loop", "returned", or "raised" after an uncaught exception
    \* ---- parse_aqhi_xml (SpecParse)
    xml_bytes,    \* the document handed to parse_aqhi_xml
    parsed        \* what the call did (None before the call)

vars == <<val, color, urls, regions, limit, kept, variant, bbox, pc, todo,
          requests, failures, rows, fcst, df, fcst_df, merged, fcst_merged, written, exit_code,
          page_bbox, url, params, items, sent, responses, pager_pc, xml_bytes, parsed>>

colorVars == <<val, color>>
filterVars == <<urls, regions, limit, kept>>
mainVars == <<variant, bbox, pc, todo, requests, failures, rows, fcst, df, fcst_df,
              merged, fcst_merged, written, exit_code>>
pagerVars == <<page_bbox, url, params, items, sent, responses, pager_pc>>
parseVars == <<xml_bytes, parsed>>

-----------------------------------------------------------------------------
(* Python values *)

None == [kind |-> "none"]
NaN == [kind |-> "nan"]
Num(n, d) == [kind |-> "num", num |-> n, den |-> d]
Str(s) == [kind |-> "str", s |-> s]
List(xs) == [kind |-> "list", items |-> xs]
\* the outcome of a conversion that raises
Fail == [kind |-> "fail"]

\* Longest str argument of aqhi_to_color that is enumerated.
MaxStrLen == 3

Range(s) == {s[i] : i \in 1..Len(s)}

RECURSIVE SeqsUpTo(_, _)
SeqsUpTo(S, n) ==
    IF n = 0 THEN {<<>>}
    ELSE LET shorter == SeqsUpTo(S, n - 1)
         IN  shorter \cup {Append(s, x) : s \in {t \in shorter : Len(t) = n - 1}, x \in S}

Digits == {"0", "1", "5", "7"}
DigitVal(c) == CASE c = "0" -> 0 [] c = "1" -> 1 [] c = "5" -> 5 [] c = "7" -> 7
Chars == Digits \cup {".", "-", "n", "a"}

RECURSIVE Pow10(_)
Pow10(k) == IF k = 0 THEN 1 ELSE 10 * Pow10(k - 1)

RECURSIVE DigitsValue(_)
DigitsValue(s) ==
    IF s = <<>> THEN 0
    ELSE 10 * DigitsValue(SubSeq(s, 1, Len(s) - 1)) + DigitVal(s[Len(s)])

AllDigits(s) == \A i \in 1..Len(s) : s[i] \in Digits

\* float(str): Fail for a ValueError, else the float.  The str is over Chars:
\* an optional sign, then "nan", or digits with at most one point and at least
\* one digit.
UnsignedFloat(s) ==
    IF s = <<"n", "a", "n">> THEN NaN
    ELSE LET points == {i \in 1..Len(s) : s[i] = "."}
         IN  IF Cardinality(points) > 1 THEN Fail
             ELSE IF points = {}
                  THEN IF s # <<>> /\ AllDigits(s) THEN Num(DigitsValue(s), 1) ELSE Fail
                  ELSE LET p == CHOOSE i \in points : TRUE
                           ip == SubSeq(s, 1, p - 1)
                           fp == SubSeq(s, p + 1, Len(s))
                       IN  IF AllDigits(ip) /\ AllDigits(fp) /\ Len(ip) + Len(fp) > 0
                           THEN Num(DigitsValue(ip \o fp), Pow10(Len(fp)))
                           ELSE Fail

Negate(v) == IF v = Fail \/ v.kind = "nan" THEN v ELSE Num(-v.num, v.den)

ParseFloat(s) ==
    IF s # <<>> /\ s[1] = "-" THEN Negate(UnsignedFloat(Tail(s))) ELSE UnsignedFloat(s)

\* float(val) of aqhi_to_color's try block
ToFloat(v) ==
    CASE v.kind = "num" -> v
      [] v.kind = "nan" -> v
      [] v.kind = "str" -> ParseFloat(v.s)
      [] OTHER -> Fail

\* pd.isna on a scalar: None and float NaN; a str is never NA
IsNa(v) == v.kind \in {"none", "nan"}

\* v <= k and v >= k for a float v and an integer k: every comparison with NaN
\* is False
Le(v, k) == v.kind = "num" /\ v.num <= k * v.den
Ge(v, k) == v.kind = "num" /\ v.num >= k * v.den

-----------------------------------------------------------------------------
(* aqhi_to_color *)

AQHI_COLORS == <<"#01cbff", "#0099cb", "#016797", "#fffe03", "#ffcb00", "#ff9835",
                 "#fd6866", "#fe0002", "#cc0001", "#9a0100", "#640100">>

MISSING_COLOR == "#9e9e9e"

\* The band the if-cascade selects for a float v: the first threshold it passes,
\* else the fall-through return of AQHI_COLORS[10] (position 11 here).
RECURSIVE Cascade(_, _)
Cascade(v, k) ==
    IF k > 10 THEN 11
    ELSE IF Le(v, k) THEN k
    ELSE Cascade(v, k + 1)

aqhi_to_color(v) ==
    IF v = None \/ IsNa(v) THEN MISSING_COLOR
    ELSE LET f == ToFloat(v)
         IN  IF f = Fail THEN MISSING_COLOR
             ELSE AQHI_COLORS[Cascade(f, 1)]

\* floats handed to aqhi_to_color: -1.0, 0.0, 0.5, ... 11.0, in tenths
FloatInputs == {Num(n, 10) : n \in {-10} \cup {5 * i : i \in 0..22}}

ColorInputs ==
    {None, NaN} \cup FloatInputs \cup {Str(s) : s \in SeqsUpTo(Chars, MaxStrLen)}

-----------------------------------------------------------------------------
(* SpecColor: one call of aqhi_to_color *)

IdleFilter ==
    /\ urls = <<>> /\ regions = None /\ limit = 0 /\ kept = None

IdleMain ==
    /\ variant = "xml" /\ bbox = None /\ pc = "idle" /\ todo = 0 /\ requests = 0 /\ failures = 0
    /\ rows = <<>> /\ fcst = <<>> /\ df = <<>> /\ fcst_df = <<>>
    /\ merged = <<>> /\ fcst_merged = <<>> /\ written = {} /\ exit_code = "running"

IdleColor == val = None /\ color = "unset"

IdlePager ==
    /\ page_bbox = None /\ url = None /\ params = None /\ items = <<>>
    /\ sent = <<>> /\ responses = <<>> /\ pager_pc = "idle"

IdleParse == xml_bytes = None /\ parsed = None

InitColor ==
    /\ val \in ColorInputs
    /\ color = "unset"
    /\ IdleFilter /\ IdleMain /\ IdlePager /\ IdleParse

CallColor ==
    /\ color = "unset"
    /\ color' = aqhi_to_color(val)
    /\ UNCHANGED <<val, filterVars, mainVars, pagerVars, parseVars>>

NextColor == CallColor

SpecColor == InitColor /\ [][NextColor]_vars

-----------------------------------------------------------------------------
(* C5 *)

\* The reference band function of the claim: the float a value stands for, the
\* missing colour when there is none (None, NaN, not a number), else the palette
\* entry of the smallest k in 1..10 with v <= k, else the 11th entry.
RefValue(v) == IF v.kind = "str" THEN ParseFloat(v.s) ELSE v

RefColor(v) ==
    LET x == RefValue(v)
    IN  IF x.kind # "num" THEN "#9e9e9e"
        ELSE LET ks == {k \in 1..10 : x.num <= k * x.den}
             IN  IF ks = {} THEN "#640100"
                 ELSE AQHI_COLORS[CHOOSE k \in ks : \A j \in ks : k <= j]

\* C5: aqhi_to_color equals the reference band function on every input
\* (missing or non-numeric -> #9e9e9e, v -> entry of the smallest k with v <= k,
\* v > 10 -> #640100).
C5_ColorIsReferenceBand == color # "unset" => color = RefColor(val)

-----------------------------------------------------------------------------
(* str helpers: case, order, search *)

UpperChars == <<"A", "B", "C", "D", "E", "F", "G", "H", "I", "J", "K", "L", "M", "N", "O", "P", "Q", "R", "S", "T", "U", "V", "W", "X", "Y", "Z">>
LowerChars == <<"a", "b", "c", "d", "e", "f", "g", "h", "i", "j", "k", "l", "m", "n", "o", "p", "q", "r", "s", "t", "u", "v", "w", "x", "y", "z">>
\* the characters of the enumerated URLs, in code point order
CodeOrder == <<"-", ".", "/", "0", "1", "2", "3", "4", "5", "6", "7", "8", "9", ":">> \o UpperChars \o LowerChars

IndexOf(c, s) == CHOOSE i \in 1..Len(s) : s[i] = c
CodePoint(c) == IndexOf(c, CodeOrder)

\* str.lower()
LowerChar(c) == IF c \in Range(UpperChars) THEN LowerChars[IndexOf(c, UpperChars)] ELSE c
Lower(s) == [i \in 1..Len(s) |-> LowerChar(s[i])]

\* sub in s
Contains(s, sub) ==
    \E i \in 0..(Len(s) - Len(sub)) : SubSeq(s, i + 1, i + Len(sub)) = sub

\* s.endswith(suf)
EndsWith(s, suf) ==
    Len(s) >= Len(suf) /\ SubSeq(s, Len(s) - Len(suf) + 1, Len(s)) = suf

\* a < b for two str (code point order, a proper prefix first)
StrLess(a, b) ==
    \E i \in 1..(Len(b)) :
        /\ i <= Len(a) + 1
        /\ SubSeq(a, 1, i - 1) = SubSeq(b, 1, i - 1)
        /\ (i = Len(a) + 1 \/ (i <= Len(a) /\ CodePoint(a[i]) < CodePoint(b[i])))

\* list.sort() on a list of str
RECURSIVE SortStrs(_)
SortStrs(l) ==
    IF l = <<>> THEN <<>>
    ELSE LET rest == SortStrs(Tail(l))
             x == l[1]
             before == {i \in 1..Len(rest) : ~StrLess(x, rest[i])}
             n == Cardinality(before)
         IN  SubSeq(rest, 1, n) \o <<x>> \o SubSeq(rest, n + 1, Len(rest))

\* l[k:] and l[-n:] of a Python list
DropFirst(l, k) == SubSeq(l, (IF k > Len(l) THEN Len(l) ELSE k) + 1, Len(l))
SliceFromNeg(l, n) ==
    IF n > 0 THEN DropFirst(l, IF n > Len(l) THEN 0 ELSE Len(l) - n)
    ELSE IF n = 0 THEN l
    ELSE DropFirst(l, -n)

-----------------------------------------------------------------------------
(* filter_realtime_observation_urls *)

OBSERVATION == <<"o", "b", "s", "e", "r", "v", "a", "t", "i", "o", "n">>
REALTIME == <<"r", "e", "a", "l", "t", "i", "m", "e">>
DOT_XML == <<".", "x", "m", "l">>

\* regions = set(r.lower() for r in regions) if regions else None
RegionSet(rs) ==
    IF rs.kind = "list" /\ rs.items # <<>>
    THEN {Lower(rs.items[i]) : i \in 1..Len(rs.items)}
    ELSE {}

\* KeepsUrl matching a region as a bare substring instead of a '/<region>/' segment
KeepsUrlRegionSubstring(u, rs) ==
    LET lu == Lower(u)
    IN  /\ Contains(lu, OBSERVATION) /\ Contains(lu, REALTIME) /\ EndsWith(lu, DOT_XML)
        /\ (RegionSet(rs) # {} => \E r \in RegionSet(rs) : Contains(lu, r))

\* the test of the loop body: does u go into kept
KeepsUrl(u, rs) ==
    LET lu == Lower(u)
    IN  /\ Contains(lu, OBSERVATION) /\ Contains(lu, REALTIME) /\ EndsWith(lu, DOT_XML)
        /\ (RegionSet(rs) # {} =>
                \E r \in RegionSet(rs) : Contains(lu, <<"/">> \o r \o <<"/">>))

RECURSIVE SelectUrls(_, _)
SelectUrls(us, rs) ==
    IF us = <<>> THEN <<>>
    ELSE (IF KeepsUrl(us[1], rs) THEN <<us[1]>> ELSE <<>>) \o SelectUrls(Tail(us), rs)

filter_realtime_observation_urls(us, rs, lim) ==
    LET sorted == SortStrs(SelectUrls(us, rs))
    IN  IF lim # 0 THEN SliceFromNeg(sorted, lim) ELSE sorted

\* the default of --limit
DEFAULT_LIMIT == 300

\* Longest master index that is enumerated.
MaxUrls == 3

URL_ATL == <<"h", "t", "t", "p", ":", "/", "/", "d", "/", "o", "b", "s", "e", "r", "v", "a", "t", "i", "o", "n", "/", "r", "e", "a", "l", "t", "i", "m", "e", "/", "a", "t", "l", "/", "2", "0", "2", "4", ".", "x", "m", "l">>
URL_ONT == <<"h", "t", "t", "p", ":", "/", "/", "d", "/", "o", "b", "s", "e", "r", "v", "a", "t", "i", "o", "n", "/", "r", "e", "a", "l", "t", "i", "m", "e", "/", "o", "n", "t", "/", "2", "0", "2", "3", ".", "x", "m", "l">>
URL_ATL_UPPER == <<"h", "t", "t", "p", ":", "/", "/", "d", "/", "O", "b", "s", "e", "r", "v", "a", "t", "i", "o", "n", "/", "R", "e", "a", "l", "T", "i", "m", "e", "/", "A", "T", "L", "/", "2", "0", "2", "5", ".", "X", "M", "L">>
URL_FORECAST == <<"h", "t", "t", "p", ":", "/", "/", "d", "/", "f", "o", "r", "e", "c", "a", "s", "t", "/", "r", "e", "a", "l", "t", "i", "m", "e", "/", "a", "t", "l", "/", "2", "0", "2", "4", ".", "x", "m", "l">>
URL_ARCHIVE == <<"h", "t", "t", "p", ":", "/", "/", "d", "/", "o", "b", "s", "e", "r", "v", "a", "t", "i", "o", "n", "/", "a", "r", "c", "h", "i", "v", "e", "/", "a", "t", "l", "/", "2", "0", "2", "4", ".", "x", "m", "l">>
URL_GZ == <<"h", "t", "t", "p", ":", "/", "/", "d", "/", "o", "b", "s", "e", "r", "v", "a", "t", "i", "o", "n", "/", "r", "e", "a", "l", "t", "i", "m", "e", "/", "a", "t", "l", "/", "2", "0", "2", "4", ".", "x", "m", "l", ".", "g", "z">>
URL_ATLANTIC == <<"h", "t", "t", "p", ":", "/", "/", "d", "/", "o", "b", "s", "e", "r", "v", "a", "t", "i", "o", "n", "/", "r", "e", "a", "l", "t", "i", "m", "e", "/", "a", "t", "l", "a", "n", "t", "i", "c", "/", "2", "0", "2", "4", ".", "x", "m", "l">>

UrlInputs == {URL_ATL, URL_ONT, URL_ATL_UPPER, URL_FORECAST, URL_ARCHIVE, URL_GZ,
              URL_ATLANTIC}

NoDuplicates(l) == \A i, j \in 1..Len(l) : l[i] = l[j] => i = j

ATL == <<"a", "t", "l">>
ATL_UPPER == <<"A", "T", "L">>
ONT == <<"o", "n", "t">>
QUE == <<"q", "u", "e">>

RegionInputs == {None, List(<<>>), List(<<ATL>>), List(<<ATL_UPPER>>),
                 List(<<ATL, ONT>>), List(<<QUE>>)}

\* --limit is type=int: 0 (unset), small limits, the default, a negative number
LimitInputs == {0, 1, 2, DEFAULT_LIMIT, -1}

InitFilter ==
    /\ urls \in {l \in SeqsUpTo(UrlInputs, MaxUrls) : NoDuplicates(l)}
    /\ regions \in RegionInputs
    /\ limit \in LimitInputs
    /\ kept = None
    /\ IdleColor /\ IdleMain /\ IdlePager /\ IdleParse

CallFilter ==
    /\ kept = None
    /\ kept' = List(filter_realtime_observation_urls(urls, regions, limit))
    /\ UNCHANGED <<urls, regions, limit, colorVars, mainVars, pagerVars, parseVars>>

NextFilter == CallFilter

SpecFilter == InitFilter /\ [][NextFilter]_vars

-----------------------------------------------------------------------------
(* C9 *)

\* The condition of the claim on one URL: lower-cased, it contains 'observation'
\* and 'realtime' and ends in '.xml', and with a non-empty region list it
\* contains '/<region>/' for a requested region, compared case-insensitively.
C9_Condition(u) ==
    LET lu == Lower(u)
    IN  /\ Contains(lu, OBSERVATION)
        /\ Contains(lu, REALTIME)
        /\ EndsWith(lu, DOT_XML)
        /\ ((regions.kind = "list" /\ regions.items # <<>>) =>
                \E i \in 1..Len(regions.items) :
                    Contains(lu, <<"/">> \o Lower(regions.items[i]) \o <<"/">>))

C9_Matching == {i \in 1..Len(urls) : C9_Condition(urls[i])}

\* C9 as stated: a URL of the index is returned if and only if it meets the
\* condition.
C9_KeptIffCondition ==
    kept # None =>
        \A i \in 1..Len(urls) : (urls[i] \in Range(kept.items)) <=> C9_Condition(urls[i])

\* C9 as amended: every returned URL is a URL of the index that meets the
\* condition, and when the limit is unset (0) or at least the number of URLs
\* meeting the condition, every such URL is returned.
C9_KeptOnlyIfAndIfNotTruncated ==
    kept # None =>
        /\ \A j \in 1..Len(kept.items) :
              \E i \in 1..Len(urls) : urls[i] = kept.items[j] /\ C9_Condition(urls[i])
        /\ (limit = 0 \/ limit >= Cardinality(C9_Matching)) =>
              \A i \in C9_Matching : urls[i] \in Range(kept.items)

\* one realtime 'atl' URL and one realtime 'ont' URL, regions=['atl'], the
\* default limit: only the 'atl' URL is returned
C9_Witness ==
    /\ kept # None
    /\ urls = <<URL_ATL, URL_ONT>>
    /\ regions = List(<<ATL>>)
    /\ limit = DEFAULT_LIMIT
    /\ kept.items = <<URL_ATL>>

-----------------------------------------------------------------------------
(* C12 *)

\* the URLs of the index that pass the filter's test, before the sort
C12_Passing == {urls[i] : i \in C9_Matching}

\* how many URLs the claim says are returned under limit N: min(N, count), no
\* URL at all where that is negative
C12_Count(N) ==
    IF N = 0 THEN Cardinality(C12_Passing)
    ELSE IF N < 0 THEN 0
    ELSE IF N < Cardinality(C12_Passing) THEN N ELSE Cardinality(C12_Passing)

\* C12: the returned list is in ascending lexical order; with a limit N (any
\* integer but 0) it holds exactly the min(N, count) lexically greatest URLs
\* that pass the filter, and with the limit unset (0) all of them.
C12_LimitKeepsGreatest ==
    kept # None =>
        /\ \A i, j \in 1..Len(kept.items) : i < j => StrLess(kept.items[i], kept.items[j])
        /\ Range(kept.items) \subseteq C12_Passing
        /\ Len(kept.items) = C12_Count(limit)
        /\ \A u \in C12_Passing \ Range(kept.items), w \in Range(kept.items) : StrLess(u, w)

-----------------------------------------------------------------------------
(* Records and dataframes *)

\* Most leaf resources (documents, pages) of one run.
MaxLeaves == 2
\* Most records (rows, features) all the leaves of one run carry together.
MaxRows == 2

T1 == Str(<<"2", "0", "2", "4", "-", "0", "1", "-", "0", "1", "T", "0", "0", ":", "0", "0">>)
T2 == Str(<<"2", "0", "2", "4", "-", "0", "1", "-", "0", "2", "T", "0", "0", ":", "0", "0">>)
\* observed / observation_datetime / forecast_datetime: a str, or None
Times == {None, T1, T2}

Rec(id, name, lon, lat, aqhi, observed) ==
    [id |-> id, name |-> name, lon |-> lon, lat |-> lat, aqhi |-> aqhi,
     observed |-> observed, color |-> "unset"]

STATION_A == Str(<<"S", "t", "a", "t", "i", "o", "n", "A">>)
STATION_B == Str(<<"S", "t", "a", "t", "i", "o", "n", "B">>)
S1 == Str(<<"s", "1">>)
S2 == Str(<<"s", "2">>)

\* What parse_aqhi_xml emits: no id, name a str or None, both coordinates a
\* float (float("nan") included), aqhi a float or None.
XmlStations ==
    { <<None, STATION_A, Num(-115, 1), Num(55, 1), Num(75, 10)>>,
      <<None, STATION_A, Num(-130, 1), Num(50, 1), Num(3, 1)>>,
      <<None, None,      Num(-115, 1), Num(55, 1), None>>,
      <<None, None,      Num(-121, 1), Num(48, 1), Num(11, 1)>>,
      <<None, STATION_B, Num(-121, 1), Num(48, 1), Num(1, 1)>>,
      <<None, STATION_B, NaN,          Num(48, 1), Num(2, 1)>>,
      <<None, STATION_A, Num(-115, 1), NaN,        Num(75, 10)>> }

\* What obs_to_df / to_dataframe / fcst_to_df read from a feature: id and name a
\* str or None, coordinates numbers or None ([null, 48] as coordinates; both None
\* for a feature with no geometry, a null geometry or empty coordinates).
ApiStations ==
    { <<S1,   STATION_A, Num(-115, 1), Num(55, 1), Num(75, 10)>>,
      <<S1,   STATION_A, Num(-130, 1), Num(50, 1), Num(3, 1)>>,
      <<None, STATION_A, Num(-115, 1), Num(55, 1), None>>,
      <<None, STATION_B, Num(-121, 1), Num(48, 1), Num(11, 1)>>,
      <<S2,   STATION_B, Num(-121, 1), Num(48, 1), Num(1, 1)>>,
      <<S2,   STATION_B, None,         Num(48, 1), Num(2, 1)>>,
      <<S1,   STATION_A, None,         None,       Num(75, 10)>> }

Stations(v) == IF v = "xml" THEN XmlStations ELSE ApiStations

\* the records one leaf can carry
Records(v) == {Rec(st[1], st[2], st[3], st[4], st[5], t) : st \in Stations(v), t \in Times}

HasCoords(r) == ~IsNa(r.lat) /\ ~IsNa(r.lon)

\* dropna(subset=["lat"]): the longitude forgotten
DropNaLatOnly(f) == SelectSeq(f, LAMBDA r : ~IsNa(r.lat))

\* DataFrame.dropna(subset=["lat","lon"])
DropNa(f) == SelectSeq(f, HasCoords)

\* The index orders DataFrame.sort_values("observed") can produce: rows with a
\* timestamp ascending by str comparison, rows without one last in their
\* original order (na_position="last"); the default quicksort is not stable, so
\* rows with equal timestamps come in either order.
SortOrders(f) ==
    {p \in Permutations(1..Len(f)) :
        \A i, j \in 1..Len(f) : i < j =>
            LET a == f[p[i]].observed
                b == f[p[j]].observed
            IN  /\ IsNa(a) => IsNa(b) /\ p[i] < p[j]
                /\ (~IsNa(a) /\ ~IsNa(b)) => ~StrLess(b.s, a.s)}

SortValues(f) == {[i \in 1..Len(f) |-> f[p[i]]] : p \in SortOrders(f)}

\* a groupby key that leaves the coordinates out in the XML variant
GroupKeyNameOnly(v, r) == IF v = "xml" THEN <<r.name>> ELSE <<r.id>>

\* the groupby key: ["name","lat","lon"] in the XML variant, "id" in the API ones
GroupKey(v, r) == IF v = "xml" THEN <<r.name, r.lat, r.lon>> ELSE <<r.id>>

\* groupby(..., dropna=True): a row with an NA in its key is in no group
InGroup(v, r) == \A k \in Range(GroupKey(v, r)) : ~IsNa(k)

RECURSIVE SelectIdx(_, _, _)
SelectIdx(f, keep, i) ==
    IF i > Len(f) THEN <<>>
    ELSE (IF i \in keep THEN <<f[i]>> ELSE <<>>) \o SelectIdx(f, keep, i + 1)

\* groupby(key).head(-1): every row of each group but its last
GroupHeadButLast(v, f) ==
    SelectIdx(f, {i \in 1..Len(f) :
                    /\ InGroup(v, f[i])
                    /\ \E j \in (i + 1)..Len(f) : GroupKey(v, f[j]) = GroupKey(v, f[i])}, 1)

\* groupby(key, as_index=False).tail(1): the last row of each group, in frame order
GroupTail(v, f) ==
    SelectIdx(f, {i \in 1..Len(f) :
                    /\ InGroup(v, f[i])
                    /\ \A j \in (i + 1)..Len(f) : GroupKey(v, f[j]) # GroupKey(v, f[i])}, 1)

\* df["color"] = df["aqhi"].apply(aqhi_to_color)
ApplyColor(f) == [i \in 1..Len(f) |-> [f[i] EXCEPT !.color = aqhi_to_color(f[i].aqhi)]]

\* "observed" in df.columns: pd.DataFrame(rows) takes its columns from the row
\* dicts, and every row dict has the key (its value may be None)
HasObservedColumn(f) == f # <<>>

\* The frames the merge step (dropna, then sort_values and groupby.tail when
\* the timestamp column is there) can leave.
MergeStep(v, f) ==
    IF HasObservedColumn(f)
    THEN {GroupTail(v, sorted) : sorted \in SortValues(DropNa(f))}
    ELSE {DropNa(f)}

\* obs_to_df / to_dataframe / fcst_to_df, and main's step 3 in the XML variant
ToDataFrame(v, f) == {ApplyColor(m) : m \in MergeStep(v, f)}

\* a bbox test with the west bound exclusive
InBoxWestExclusive(b, r) ==
    /\ Ge(r.lon, b.items[1]) /\ ~Le(r.lon, b.items[1]) /\ Le(r.lon, b.items[3])
    /\ Ge(r.lat, b.items[2]) /\ Le(r.lat, b.items[4])

\* (lon >= W) & (lon <= E) & (lat >= S) & (lat <= N)
InBox(b, r) ==
    /\ Ge(r.lon, b.items[1]) /\ Le(r.lon, b.items[3])
    /\ Ge(r.lat, b.items[2]) /\ Le(r.lat, b.items[4])

\* if args.bbox: df = df[...]
BboxFilter(b, f) == IF b = None THEN f ELSE SelectSeq(f, LAMBDA r : InBox(b, r))

\* --bbox -121 48 -108 61
BOX == List(<<-121, 48, -108, 61>>)

-----------------------------------------------------------------------------
(* Spec: one run of main() *)

Variants == {"xml", "geojson", "all"}

Init ==
    /\ variant \in Variants
    /\ bbox \in {None, BOX}
    /\ pc = IF variant = "xml" THEN "discover" ELSE "fetch"
    /\ todo = IF variant = "xml" THEN 0 ELSE 1
    /\ requests = 0 /\ failures = 0 /\ rows = <<>> /\ fcst = <<>>
    /\ df = <<>> /\ fcst_df = <<>> /\ merged = <<>> /\ fcst_merged = <<>>
    /\ written = {} /\ exit_code = "running"
    /\ IdleColor /\ IdleFilter /\ IdlePager /\ IdleParse

\* the record lists a leaf can carry within the run's budget
LeafRecords == SeqsUpTo(Records(variant), MaxRows - Len(rows) - Len(fcst))

\* XML variant, step 1: the master list and the filtered URL list
Discover ==
    /\ pc = "discover"
    /\ \/ \* fetch_xml(args.master_url) raises: nothing catches it
          /\ pc' = "aborted" /\ exit_code' = "1" /\ todo' = todo
       \/ \* no realtime observation URL: sys.exit(1)
          /\ pc' = "done" /\ exit_code' = "1" /\ todo' = 0
       \/ \E n \in 1..MaxLeaves :
             /\ pc' = "fetch" /\ exit_code' = exit_code /\ todo' = n
    /\ UNCHANGED <<variant, bbox, requests, failures, rows, fcst, df, fcst_df, merged,
                   fcst_merged, written, colorVars, filterVars, pagerVars, parseVars>>

\* XML variant, step 2: one iteration of the loop over urls
FetchXml ==
    /\ pc = "fetch" /\ variant = "xml" /\ todo > 0
    /\ \/ \* fetch_xml raises: caught, a warning, the next URL
          /\ failures' = failures + 1
          /\ rows' = rows
       \/ \E recs \in LeafRecords :
             /\ failures' = failures
             /\ rows' = rows \o recs
    /\ requests' = requests + 1
    /\ todo' = todo - 1
    /\ pc' = IF todo' = 0 THEN "tidy" ELSE "fetch"
    /\ UNCHANGED <<variant, bbox, fcst, df, fcst_df, merged, fcst_merged, written,
                   exit_code, colorVars, filterVars, pagerVars, parseVars>>

\* API variants: one iteration of fetch_all_items' while loop
FetchPage ==
    /\ pc \in {"fetch", "fetch_fcst"} /\ variant # "xml" /\ todo = 1
    /\ \/ \* requests.get times out or raise_for_status raises: nothing catches it
          /\ failures' = failures + 1
          /\ pc' = "aborted" /\ exit_code' = "1"
          /\ UNCHANGED <<todo, rows, fcst>>
       \/ \E recs \in LeafRecords, next \in BOOLEAN :
             /\ next => requests + 1 < MaxLeaves
             /\ failures' = failures
             /\ IF pc = "fetch"
                THEN rows' = rows \o recs /\ fcst' = fcst
                ELSE fcst' = fcst \o recs /\ rows' = rows
             /\ pc' = IF next THEN pc
                      ELSE IF pc = "fetch" /\ variant = "all" THEN "fetch_fcst"
                      ELSE "tidy"
             /\ todo' = IF pc' = "tidy" THEN 0 ELSE 1
             /\ exit_code' = exit_code
    /\ requests' = requests + 1
    /\ UNCHANGED <<variant, bbox, df, fcst_df, merged, fcst_merged, written,
                   colorVars, filterVars, pagerVars, parseVars>>

\* a feature without any coordinate: its "geometry" may be the JSON null
NoGeometry(r) == IsNa(r.lat) /\ IsNa(r.lon)

\* The emptiness check and the dataframe: XML main() step 3 after "if not rows",
\* to_dataframe after "if not feats", obs_to_df and fcst_to_df (where
\* pd.DataFrame([]).dropna(subset=["lat","lon"]) raises KeyError on no features).
Tidy ==
    /\ pc = "tidy"
    /\ \/ /\ variant # "all" /\ rows = <<>>
          /\ pc' = "done" /\ exit_code' = "1"
          /\ UNCHANGED <<df, fcst_df, merged, fcst_merged>>
       \/ \* to_dataframe: g = f.get("geometry", {}) is None for a null geometry,
          \* and g.get raises AttributeError
          /\ variant = "geojson" /\ \E k \in 1..Len(rows) : NoGeometry(rows[k])
          /\ pc' = "aborted" /\ exit_code' = "1"
          /\ UNCHANGED <<df, fcst_df, merged, fcst_merged>>
       \/ /\ variant = "all" /\ (rows = <<>> \/ fcst = <<>>)
          /\ pc' = "aborted" /\ exit_code' = "1"
          /\ UNCHANGED <<df, fcst_df, merged, fcst_merged>>
       \/ /\ variant # "all" /\ rows # <<>>
          /\ \E d \in ToDataFrame(variant, rows) : df' = d /\ merged' = d
          /\ pc' = "bbox" /\ exit_code' = exit_code
          /\ UNCHANGED <<fcst_df, fcst_merged>>
       \/ /\ variant = "all" /\ rows # <<>> /\ fcst # <<>>
          /\ \E d \in ToDataFrame(variant, rows) : df' = d /\ merged' = d
          /\ \E d \in ToDataFrame(variant, fcst) : fcst_df' = d /\ fcst_merged' = d
          /\ pc' = "bbox" /\ exit_code' = exit_code
    /\ UNCHANGED <<variant, bbox, todo, requests, failures, rows, fcst, written, colorVars,
                   filterVars, pagerVars, parseVars>>

\* the optional bbox filter
Bbox ==
    /\ pc = "bbox"
    /\ df' = BboxFilter(bbox, df)
    /\ fcst_df' = BboxFilter(bbox, fcst_df)
    /\ pc' = "write"
    /\ UNCHANGED <<variant, bbox, todo, requests, failures, rows, fcst, merged, fcst_merged,
                   written, exit_code, colorVars, filterVars, pagerVars, parseVars>>

\* to_csv, save_geojson, and build_map when folium is there and a frame has rows
Write ==
    /\ pc = "write"
    /\ \E html \in BOOLEAN :
          /\ html => (df # <<>> \/ fcst_df # <<>>)
          /\ written' = {"csv", "geojson"}
                        \cup (IF variant = "all" THEN {"fcst_csv", "fcst_geojson"} ELSE {})
                        \cup (IF html THEN {"html"} ELSE {})
    /\ pc' = "done" /\ exit_code' = "0"
    /\ UNCHANGED <<variant, bbox, todo, requests, failures, rows, fcst, df, fcst_df, merged,
                   fcst_merged, colorVars, filterVars, pagerVars, parseVars>>

Next == Discover \/ FetchXml \/ FetchPage \/ Tidy \/ Bbox \/ Write

Spec == Init /\ [][Next]_vars

-----------------------------------------------------------------------------
(* Claims about the run *)

\* the merge and colour step has run
AfterTidy == pc \in {"bbox", "write"} \/ (pc = "done" /\ exit_code = "0")

\* the frame handed to the output writers is final
AtWriters == pc = "write" \/ (pc = "done" /\ exit_code = "0")

Uncoloured(r) == [r EXCEPT !.color = "unset"]

SameRecords(a, b) == Len(a) = Len(b) /\ Range(a) = Range(b)

\* a >= b for two optional timestamps: b without a timestamp has nothing to
\* exceed; a without one is not >= a timestamp
TimestampGe(a, b) == IsNa(b) \/ (~IsNa(a) /\ ~StrLess(a.s, b.s))

\* C1: after the merge at most one record remains per identity key, and its
\* timestamp is lexically >= the timestamp of every (coordinate-bearing) input
\* record with the same key.
C1_OnePerKeyLatestTimestamp ==
    AfterTidy =>
        /\ \A i, j \in 1..Len(merged) :
              i # j => GroupKey(variant, merged[i]) # GroupKey(variant, merged[j])
        /\ \A i \in 1..Len(merged), k \in 1..Len(rows) :
              (HasCoords(rows[k]) /\ GroupKey(variant, rows[k]) = GroupKey(variant, merged[i]))
                  => TimestampGe(merged[i].observed, rows[k].observed)

\* a record without the variant's primary identity field (id; name in the XML
\* variant), and the name-plus-coordinates key it then falls back to
LacksIdentity(r) == IF variant = "xml" THEN IsNa(r.name) ELSE IsNa(r.id)
FallbackKey(r) == <<r.name, r.lat, r.lon>>
Survivors(r) ==
    {i \in 1..Len(merged) :
        LacksIdentity(merged[i]) /\ FallbackKey(merged[i]) = FallbackKey(r)}

\* C2: two coordinate-bearing records without an id (XML: without a name) that
\* differ in name or coordinates are two stations, each with one surviving
\* record after the merge.
C2_IdlessStationsSurvive ==
    AfterTidy =>
        \A a, b \in 1..Len(rows) :
            (/\ HasCoords(rows[a]) /\ HasCoords(rows[b])
             /\ LacksIdentity(rows[a]) /\ LacksIdentity(rows[b])
             /\ FallbackKey(rows[a]) # FallbackKey(rows[b]))
                => /\ Cardinality(Survivors(rows[a])) = 1
                   /\ Cardinality(Survivors(rows[b])) = 1

\* C3: when no input record carries a timestamp, the merge only drops the
\* records without coordinates: every coordinate-bearing input record remains.
\* (Stated for runs whose records all carry their identity field, the case in
\* which the grouping drops no record for a missing key.)
C3_NoTimestampNoReduction ==
    (/\ AfterTidy
     /\ \A k \in 1..Len(rows) : IsNa(rows[k].observed) /\ ~LacksIdentity(rows[k])) =>
        /\ Len(merged) = Len(DropNa(rows))
        /\ \A k \in 1..Len(rows) :
              HasCoords(rows[k]) => \E i \in 1..Len(merged) : Uncoloured(merged[i]) = rows[k]

\* C4: every record at the colour step (merged, fcst_merged), at the bbox filter
\* and at the writers (df, fcst_df) has both coordinates.
C4_NoMissingCoordinateDownstream ==
    \A f \in {merged, fcst_merged, df, fcst_df} :
        \A i \in 1..Len(f) : ~IsNa(f[i].lat) /\ ~IsNa(f[i].lon)

\* an input record without a coordinate, and records at the writers
C4_Witness ==
    /\ pc = "write" /\ df # <<>>
    /\ \E k \in 1..Len(rows) : IsNa(rows[k].lat) \/ IsNa(rows[k].lon)

\* W <= lon <= E and S <= lat <= N, the box being (W, S, E, N)
C6_Inside(r) ==
    /\ bbox.items[1] * r.lon.den <= r.lon.num /\ r.lon.num <= bbox.items[3] * r.lon.den
    /\ bbox.items[2] * r.lat.den <= r.lat.num /\ r.lat.num <= bbox.items[4] * r.lat.den

C6_Exactly(out, in) ==
    IF bbox = None THEN out = in
    ELSE /\ Range(out) = {r \in Range(in) : C6_Inside(r)}
         /\ Len(out) = Cardinality({i \in 1..Len(in) : C6_Inside(in[i])})

\* C6: with a box, the records passed to the writers are exactly the merged
\* records inside the box, bounds included; without one, the merged records.
C6_BboxKeepsExactlyInside ==
    AtWriters => C6_Exactly(df, merged) /\ C6_Exactly(fcst_df, fcst_merged)

\* box (-121, 48, -108, 61): a record at (-130, 50) is excluded, one at
\* (-115, 55) kept
C6_Witness ==
    /\ pc = "write" /\ bbox = BOX
    /\ \E i \in 1..Len(merged) :
          merged[i].lon = Num(-130, 1) /\ merged[i].lat = Num(50, 1) /\ merged[i] \notin Range(df)
    /\ \E i \in 1..Len(df) : df[i].lon = Num(-115, 1) /\ df[i].lat = Num(55, 1)

\* no source was discovered, or no record was parsed (in the "all" variant:
\* from either collection)
C7_NothingParsed == rows = <<>> \/ (variant = "all" /\ fcst = <<>>)

\* C7: the run ends non-zero with no output file when nothing was discovered or
\* parsed, and zero with the CSV and GeoJSON written in every other case,
\* whatever leaf failed.
C7_ExitStatus ==
    pc \in {"done", "aborted"} =>
        IF C7_NothingParsed
        THEN exit_code = "1" /\ written = {}
        ELSE exit_code = "0" /\ {"csv", "geojson"} \subseteq written

\* C8: a leaf that fails is skipped: the records accumulated stay as they are,
\* the leaf adds none, and the run goes on to the later leaves.
C8_LeafFailureSkipped ==
    [][failures' = failures + 1 =>
          /\ rows' = rows /\ fcst' = fcst
          /\ pc' \in {"fetch", "fetch_fcst", "tidy"}
          /\ exit_code' = exit_code]_vars

\* C10: the merge step applied to its own output yields the same records.
C10_MergeIdempotent ==
    AfterTidy =>
        /\ \A again \in MergeStep(variant, merged) : SameRecords(again, merged)
        /\ \A again \in MergeStep(variant, fcst_merged) : SameRecords(again, fcst_merged)

\* a merge that reduced its input, to a frame holding a record without a
\* timestamp
C10_Witness ==
    /\ pc = "bbox"
    /\ 0 < Len(merged) /\ Len(merged) < Len(DropNa(rows))
    /\ \E i \in 1..Len(merged) : IsNa(merged[i].observed)

-----------------------------------------------------------------------------
(* C14 *)

\* the record sets the code's order can yield: merge, then the bbox filter
C14_MergeThenFilter(f) == {Range(BboxFilter(bbox, m)) : m \in ToDataFrame(variant, f)}

\* the record sets the other order can yield: the bbox filter on the raw
\* records, then the merge
C14_FilterThenMerge(f) == {Range(m) : m \in ToDataFrame(variant, BboxFilter(bbox, f))}

\* for the raw records f and the frame out handed to the writers: the two
\* orders yield the same record sets, and out is one of them
C14_SameFinalSet(f, out) ==
    LET other == C14_FilterThenMerge(f)
    IN  C14_MergeThenFilter(f) = other /\ Range(out) \in other

C14_IdFixesCoords(f) ==
    \A i, j \in 1..Len(f) :
        (HasCoords(f[i]) /\ HasCoords(f[j]) /\ ~IsNa(f[i].id) /\ f[i].id = f[j].id)
            => f[i].lon = f[j].lon /\ f[i].lat = f[j].lat

-----------------------------------------------------------------------------
(* fetch_all_items: the pager of the two API variants *)

\* Most pages one collection serves.
MaxPages == 3

API == Str(<<"a", "p", "i">>)
PAGE_2 == Str(<<"p", "2">>)
PAGE_3 == Str(<<"p", "3">>)

REL_NEXT == Str(<<"n", "e", "x", "t">>)
REL_SELF == Str(<<"s", "e", "l", "f">>)

\* the "limit" query parameter
PAGE_LIMIT == 1000

\* params = {"f": "json", "limit": 1000}, and "bbox" when a box is given:
\* ",".join(map(str, bbox)), kept here as the numbers the text lists
InitialParams(b) ==
    IF b = None
    THEN [kind |-> "dict", f |-> "json", limit |-> PAGE_LIMIT]
    ELSE [kind |-> "dict", f |-> "json", limit |-> PAGE_LIMIT, bbox |-> b.items]

Link(rel, href) == [rel |-> rel, href |-> href]

\* dict.get(key, []) on a key that may be missing (None marks the missing key)
GetList(x) == IF x = None THEN <<>> ELSE x.items

\* bool(link.get("href")): a missing or empty href is falsy
Truthy(h) == h.kind = "str" /\ h.s # <<>>

\* the link loop taking the last 'next' link of the array instead of the first
NextUrlLast(links) ==
    LET hits == {i \in 1..Len(links) : links[i].rel = REL_NEXT /\ Truthy(links[i].href)}
    IN  IF hits = {} THEN None
        ELSE links[CHOOSE i \in hits : \A j \in hits : j <= i].href

\* the for loop over data.get("links", []): next_url stays None unless a link has
\* rel "next" and a truthy href; the first such link sets it and breaks
RECURSIVE NextUrl(_)
NextUrl(links) ==
    IF links = <<>> THEN None
    ELSE IF links[1].rel = REL_NEXT /\ Truthy(links[1].href) THEN links[1].href
    ELSE NextUrl(Tail(links))

\* the "links" arrays a response can carry (None: no "links" key)
LinkInputs ==
    { None,
      List(<<Link(REL_SELF, API)>>),
      List(<<Link(REL_NEXT, Str(<<>>))>>),
      List(<<Link(REL_NEXT, None), Link(REL_SELF, API)>>),
      List(<<Link(REL_SELF, API), Link(REL_NEXT, Str(<<>>)), Link(REL_NEXT, PAGE_2)>>),
      List(<<Link(REL_NEXT, PAGE_3), Link(REL_NEXT, PAGE_2)>>),
      List(<<Link(REL_NEXT, API)>>) }

\* the "features" arrays a response can carry (None: no "features" key)
FeatureInputs == {None, List(<<>>), List(<<"f1">>), List(<<"f2", "f1">>)}

Responses == {[features |-> fs, links |-> ls] : fs \in FeatureInputs, ls \in LinkInputs}

InitPager ==
    /\ page_bbox \in {None, BOX}
    /\ url = API
    /\ params = InitialParams(page_bbox)
    /\ items = <<>>
    /\ sent = <<>> /\ responses = <<>>
    /\ pager_pc = "loop"
    /\ IdleColor /\ IdleFilter /\ IdleMain /\ IdleParse

\* one iteration of "while url:"
PageStep ==
    /\ pager_pc = "loop" /\ url # None
    /\ sent' = Append(sent, [url |-> url, params |-> IF url = API THEN params ELSE None])
    /\ \/ \* requests.get, raise_for_status or r.json() raises: nothing catches it
          /\ pager_pc' = "raised"
          /\ UNCHANGED <<url, params, items, responses>>
       \/ \E data \in Responses :
             \* a collection serves at most MaxPages pages: its last page has no
             \* next link
             /\ NextUrl(GetList(data.links)) # None => Len(sent) + 1 < MaxPages
             /\ items' = items \o GetList(data.features)
             /\ url' = NextUrl(GetList(data.links))
             /\ params' = None
             /\ responses' = Append(responses, data)
             /\ pager_pc' = pager_pc
    /\ UNCHANGED <<page_bbox, colorVars, filterVars, mainVars, parseVars>>

\* "while url:" is left, return items
PageReturn ==
    /\ pager_pc = "loop" /\ url = None
    /\ pager_pc' = "returned"
    /\ UNCHANGED <<page_bbox, url, params, items, sent, responses, colorVars, filterVars,
                   mainVars, parseVars>>

NextPager == PageStep \/ PageReturn

\* the loop is sequential code: it takes its next step whenever it has one
SpecPager == InitPager /\ [][NextPager]_vars /\ WF_vars(NextPager)

-----------------------------------------------------------------------------
(* C13 *)

\* the href of the first link of a response with rel 'next' and a non-empty
\* href, None where the response has no such link
C13_NextOf(data) ==
    LET ls == IF data.links = None THEN <<>> ELSE data.links.items
        hits == {i \in 1..Len(ls) :
                    /\ ls[i].rel = REL_NEXT
                    /\ ls[i].href # None /\ ls[i].href # Str(<<>>)}
    IN  IF hits = {} THEN None
        ELSE ls[CHOOSE i \in hits : \A j \in hits : i <= j].href

\* the 'features' of the first n pages, one page after the other
RECURSIVE C13_Concat(_)
C13_Concat(n) ==
    IF n = 0 THEN <<>>
    ELSE C13_Concat(n - 1) \o
         (IF responses[n].features = None THEN <<>> ELSE responses[n].features.items)

C13_FirstParams(p) ==
    /\ p # None
    /\ p.f = "json" /\ p.limit = PAGE_LIMIT
    /\ IF page_bbox = None THEN DOMAIN p = {"kind", "f", "limit"}
       ELSE DOMAIN p = {"kind", "f", "limit", "bbox"} /\ p.bbox = page_bbox.items

\* the safety part of C13: requests, stop and result
C13_Paging ==
    /\ Len(sent) = Len(responses) + (IF pager_pc = "raised" THEN 1 ELSE 0)
    /\ sent # <<>> => sent[1].url = API /\ C13_FirstParams(sent[1].params)
    /\ \A k \in 2..Len(sent) :
          /\ C13_NextOf(responses[k - 1]) # None
          /\ sent[k].url = C13_NextOf(responses[k - 1])
          /\ sent[k].params = None
    /\ (pager_pc = "loop" /\ responses # <<>>) => url = C13_NextOf(responses[Len(responses)])
    /\ pager_pc = "returned" =>
          /\ responses # <<>>
          /\ C13_NextOf(responses[Len(responses)]) = None
          /\ items = C13_Concat(Len(responses))

\* C13: one request per page, from the collection URL along each response's
\* first link with rel 'next' and a non-empty href, stopping after the first
\* response without one; the result is the pages' features concatenated in page
\* order; f/limit/bbox go with the first request only; and on a collection
\* whose chain of next links is finite the loop ends.
C13_PagerFollowsNextLinks == [](C13_Paging) /\ <>(pager_pc # "loop")

\* three pages with a box: the second page was reached through a link that
\* comes after a 'self' link and a 'next' link with an empty href, the third is
\* the collection URL again
C13_Witness ==
    /\ pager_pc = "returned" /\ page_bbox = BOX
    /\ Len(sent) = 3 /\ sent[2].url = PAGE_2 /\ sent[3].url = API
    /\ responses[1].links.items[1].rel = REL_SELF
    /\ items = <<"f1", "f2", "f1">>

-----------------------------------------------------------------------------
(* parse_aqhi_xml *)

\* Most child elements one document carries.
MaxChildren == 3

NAME_TAGS == {<<"n", "a", "m", "e">>, <<"c", "o", "m", "m", "u", "n", "i", "t", "y">>, <<"l", "o", "c", "a", "t", "i", "o", "n", "_", "n", "a", "m", "e", "_", "e", "n">>}
LAT_TAGS == {<<"l", "a", "t", "i", "t", "u", "d", "e">>, <<"l", "a", "t">>}
LON_TAGS == {<<"l", "o", "n", "g", "i", "t", "u", "d", "e">>, <<"l", "o", "n">>}
INDEX_TAGS == {<<"a", "i", "r", "_", "q", "u", "a", "l", "i", "t", "y", "_", "h", "e", "a", "l", "t", "h", "_", "i", "n", "d", "e", "x">>, <<"a", "q", "h", "i">>, <<"i", "n", "d", "e", "x">>}
TIME_TAGS == {<<"o", "b", "s", "e", "r", "v", "a", "t", "i", "o", "n", "_", "d", "a", "t", "e", "t", "i", "m", "e">>, <<"d", "a", "t", "e", "t", "i", "m", "e">>, <<"d", "a", "t", "e">>, <<"t", "i", "m", "e">>}

\* s.split('}')[-1]: what follows the last '}' of s
RECURSIVE AfterLastBrace(_)
AfterLastBrace(s) ==
    IF \E i \in 1..Len(s) : s[i] = "}" THEN AfterLastBrace(Tail(s)) ELSE s

\* c.tag.lower().split('}')[-1]
NormTag(tag) == AfterLastBrace(Lower(tag))

\* str.strip() for the blank character
RECURSIVE Strip(_)
Strip(s) ==
    IF s # <<>> /\ s[1] = " " THEN Strip(Tail(s))
    ELSE IF s # <<>> /\ s[Len(s)] = " " THEN Strip(SubSeq(s, 1, Len(s) - 1))
    ELSE s

\* (child.text or "").strip()
TextOf(child) == IF child.text = None THEN <<>> ELSE Strip(child.text.s)

Child(tag, text) == [tag |-> tag, text |-> text]

\* one pass of "for child in node": the if/elif chain on the child's tag
SetField(rec, child) ==
    LET ctag == NormTag(child.tag)
        text == TextOf(child)
        f == ParseFloat(text)
    IN  IF ctag \in NAME_TAGS
        THEN [rec EXCEPT !.name = IF text # <<>> THEN Str(text) ELSE @]
        ELSE IF ctag \in LAT_TAGS THEN (IF f = Fail THEN rec ELSE [rec EXCEPT !.lat = f])
        ELSE IF ctag \in LON_TAGS THEN (IF f = Fail THEN rec ELSE [rec EXCEPT !.lon = f])
        ELSE IF ctag \in INDEX_TAGS THEN (IF f = Fail THEN rec ELSE [rec EXCEPT !.aqhi = f])
        ELSE IF ctag \in TIME_TAGS
        THEN [rec EXCEPT !.observed = IF text # <<>> THEN Str(text) ELSE @]
        ELSE rec

RECURSIVE FillRec(_, _)
FillRec(rec, children) ==
    IF children = <<>> THEN rec
    ELSE FillRec(SetField(rec, children[1]), Tail(children))

\* any(t in child_tags for t in tags)
AnyTag(children, tags) == \E i \in 1..Len(children) : NormTag(children[i].tag) \in tags

\* if rec["lat"] is not None and rec["lon"] is not None
Emits(rec) == rec.lat # None /\ rec.lon # None

\* the body of "for node in root.iter()": the records one node adds to rows
NodeRows(children) ==
    IF AnyTag(children, LAT_TAGS) /\ AnyTag(children, LON_TAGS) /\ AnyTag(children, INDEX_TAGS)
    THEN LET rec == FillRec(Rec(None, None, None, None, None, None), children)
         IN  IF Emits(rec) THEN <<rec>> ELSE <<>>
    ELSE <<>>

RECURSIVE AllRows(_)
AllRows(nodes) == IF nodes = <<>> THEN <<>> ELSE NodeRows(nodes[1]) \o AllRows(Tail(nodes))

\* A document is bytes that ET.fromstring rejects with ParseError ("malformed"),
\* bytes whose XML declaration names an encoding the parser does not know
\* (ET.fromstring raises LookupError, which is not caught), or a tree, given by
\* the elements root.iter() visits that have children, each as the list of its
\* direct children.
parse_aqhi_xml(doc) ==
    CASE doc.kind = "malformed" -> List(<<>>)
      [] doc.kind = "unknown_encoding" -> Fail
      [] doc.kind = "xml" -> List(AllRows(doc.nodes))

\* the child elements that are enumerated: tag (as ElementTree gives it, with
\* the namespace in braces) and text
ChildInputs ==
    { Child(<<"{", "u", "}", "L", "a", "t">>, Str(<<"5">>)),
      Child(<<"l", "a", "t", "i", "t", "u", "d", "e">>, Str(<<"a">>)),
      Child(<<"L", "O", "N">>, Str(<<" ", "-", "1", ".", "5">>)),
      Child(<<"l", "o", "n", "g", "i", "t", "u", "d", "e">>, Str(<<"n", "a", "n">>)),
      Child(<<"a", "q", "h", "i">>, Str(<<"7">>)),
      Child(<<"{", "u", "}", "I", "n", "d", "e", "x">>, None),
      Child(<<"n", "a", "m", "e">>, Str(<<"a">>)),
      Child(<<"l", "a", "t", "s">>, Str(<<"1">>)) }

\* the trees: up to MaxChildren children in document order, under one element
\* or shared between two
Trees ==
    UNION {{[kind |-> "xml",
             nodes |-> SelectSeq(<<SubSeq(cs, 1, k), SubSeq(cs, k + 1, Len(cs))>>,
                                 LAMBDA n : n # <<>>)] : k \in 0..(Len(cs) - 1)} \cup
           {[kind |-> "xml", nodes |-> <<>>]} :
        cs \in SeqsUpTo(ChildInputs, MaxChildren)}

Documents == {[kind |-> "malformed"], [kind |-> "unknown_encoding"]} \cup Trees

InitParse ==
    /\ xml_bytes \in Documents
    /\ parsed = None
    /\ IdleColor /\ IdleFilter /\ IdleMain /\ IdlePager

CallParse ==
    /\ parsed = None
    /\ parsed' = parse_aqhi_xml(xml_bytes)
    /\ UNCHANGED <<xml_bytes, colorVars, filterVars, mainVars, pagerVars>>

NextParse == CallParse

SpecParse == InitParse /\ [][NextParse]_vars

-----------------------------------------------------------------------------
(* C11 *)

\* a text that parses as a number: after stripping, the decimal notation of
\* one ("nan" names no number)
C11_IsNumber(text) == text # None /\ ParseFloat(Strip(text.s)).kind = "num"

C11_TagIn(child, tags) == NormTag(child.tag) \in tags

\* the direct children of a node with a tag of the given kind whose text parses
\* as a number
C11_Numeric(node, tags) ==
    {i \in 1..Len(node) : C11_TagIn(node[i], tags) /\ C11_IsNumber(node[i].text)}

\* the claim's condition for a node to yield a record
C11_Qualifies(node) ==
    /\ \E i \in 1..Len(node) : C11_TagIn(node[i], LAT_TAGS)
    /\ \E i \in 1..Len(node) : C11_TagIn(node[i], LON_TAGS)
    /\ \E i \in 1..Len(node) : C11_TagIn(node[i], INDEX_TAGS)
    /\ C11_Numeric(node, LAT_TAGS) # {}
    /\ C11_Numeric(node, LON_TAGS) # {}

C11_Qualifying == {n \in 1..Len(xml_bytes.nodes) : C11_Qualifies(xml_bytes.nodes[n])}

\* the record of the k-th qualifying node is the k-th record returned
C11_RecordOf(n) ==
    parsed.items[Cardinality({m \in C11_Qualifying : m <= n})]

\* C11: a well-formed document yields one record per node whose direct
\* children include a latitude-like, a longitude-like and an index-like tag
\* (case-insensitive, namespace-stripped) and whose coordinate texts both parse
\* as numbers, and no record for any other node; the record carries those
\* coordinates, and an aqhi that is null when no index text parses; a document
\* that is not well-formed yields zero records without raising.
C11_RecordIffCoordinatesParse ==
    parsed # None =>
        /\ xml_bytes.kind = "malformed" => parsed = List(<<>>)
        /\ xml_bytes.kind = "xml" =>
              /\ parsed.kind = "list"
              /\ Len(parsed.items) = Cardinality(C11_Qualifying)
              /\ \A n \in C11_Qualifying :
                    LET node == xml_bytes.nodes[n]
                        rec == C11_RecordOf(n)
                    IN  /\ \E i \in C11_Numeric(node, LAT_TAGS) :
                              rec.lat = ParseFloat(Strip(node[i].text.s))
                        /\ \E i \in C11_Numeric(node, LON_TAGS) :
                              rec.lon = ParseFloat(Strip(node[i].text.s))
                        /\ IF C11_Numeric(node, INDEX_TAGS) = {} THEN IsNa(rec.aqhi)
                           ELSE \E i \in C11_Numeric(node, INDEX_TAGS) :
                                   rec.aqhi = ParseFloat(Strip(node[i].text.s))

====
